---- MODULE Spec2Model ----
(***************************************************************************)
(* Model of src/agent.py: the MAD4PG_Net coordinator (construction, act,   *)
(* store, learn, initialize_memory, e, new_episode, update_networks,       *)
(* _soft_update, _hard_update) and D4PG_Agent._categorical.                *)
(*                                                                         *)
(* Real numbers are exact rationals <<n, d>> (d > 0, lowest terms), except *)
(* network parameters, which live on a fixed-point grid (integers) so that *)
(* repeated blending stays finite, the way float32 tensors do.             *)
(***************************************************************************)
EXTENDS Integers, Sequences, FiniteSets, TLC

VARIABLES
    \* ---- MAD4PG_Net fields ----
    pc,             \* position of the caller inside the coordinator
    update_type,    \* args.update_type
    tau,            \* args.tau, as a numerator over TauDen
    t_step,         \* self.t_step
    episode,        \* self.episode
    avg_score,      \* self.avg_score (rational)
    e_min,          \* self.e_min
    _e,             \* self._e
    anneal_max,     \* self.anneal_max
    actor,          \* agent -> parameters of agent.actor
    actor_target,   \* agent -> parameters of agent.actor_target
    critic,         \* agent -> parameters of agent.critic
    critic_target,  \* agent -> parameters of agent.critic_target
    \* ---- locals of one learn call ----
    joint,          \* the joint action tensors assembled by learn
    received,       \* the joint tensors handed to the agent that learned last
    log,            \* the steps of the current learn call, in order
    \* ---- replay store and environment ----
    memlen,         \* len(self.memory)
    n_step,         \* episodes of the transitions in the n-step accumulator
    envEpisode,     \* episode the environment is in (changes on a reset)
    envDone,        \* the environment's episode is over and not yet reset
    envSteps,       \* env.step calls made so far
    pretrain_length,\* argument of the running initialize_memory call
    \* ---- arguments and result of the last call of a pure routine ----
    call,
    ret

vars == <<pc, update_type, tau, t_step, episode, avg_score, e_min, _e,
          anneal_max, actor, actor_target, critic, critic_target, joint,
          received, log, memlen, n_step, envEpisode, envDone,
          envSteps, pretrain_length, call, ret>>

netVars == <<actor, actor_target, critic, critic_target>>
cfgVars == <<update_type, tau, e_min, _e, anneal_max>>
learnVars == <<joint, received, log>>
memVars == <<memlen, n_step, envEpisode, envDone, envSteps, pretrain_length>>

(***************************************************************************)
(* Exact rational arithmetic.                                              *)
(***************************************************************************)
Abs(x) == IF x < 0 THEN -x ELSE x

RECURSIVE Gcd(_, _)
Gcd(a, b) == IF b = 0 THEN a ELSE Gcd(b, a % b)

Rat(n, d) ==
    LET s == IF d < 0 THEN -1 ELSE 1
        g == Gcd(Abs(n), Abs(d))
    IN  <<(s * n) \div g, (s * d) \div g>>

RInt(n) == <<n, 1>>
RAdd(x, y) == Rat(x[1] * y[2] + y[1] * x[2], x[2] * y[2])
RSub(x, y) == Rat(x[1] * y[2] - y[1] * x[2], x[2] * y[2])
RMul(x, y) == Rat(x[1] * y[1], x[2] * y[2])
RDiv(x, y) == Rat(x[1] * y[2], x[2] * y[1])
RLe(x, y) == x[1] * y[2] <= y[1] * x[2]
RLt(x, y) == x[1] * y[2] < y[1] * x[2]
RFloor(x) == x[1] \div x[2]
RCeil(x) == -((-x[1]) \div x[2])

RECURSIVE RPow(_, _)
RPow(x, k) == IF k = 0 THEN RInt(1) ELSE RMul(x, RPow(x, k - 1))

\* x.clamp(lo, hi), np.clip(x, lo, hi)
Clamp(x, lo, hi) == IF RLt(x, lo) THEN lo ELSE IF RLt(hi, x) THEN hi ELSE x

\* torch.round: to the nearest integer, a tie to the even one
Round(x) ==
    LET f == RFloor(x)
        twice == RSub(RMul(RInt(2), x), RInt(2 * f))   \* 2 * (x - f), in [0, 2)
    IN  IF RLt(twice, RInt(1)) THEN f
        ELSE IF RLt(RInt(1), twice) THEN f + 1
        ELSE IF f % 2 = 0 THEN f ELSE f + 1

(***************************************************************************)
(* D4PG_Agent._categorical: the categorical projection.                    *)
(* self is the record of the agent's fields the routine reads:             *)
(* [vmin, vmax, gamma, rollout]; histograms are functions on 0..num_atoms-1 *)
(***************************************************************************)
num_atoms == 3
AtomIdx == 0 .. (num_atoms - 1)

\* self.atoms = torch.linspace(vmin, vmax, num_atoms)
atoms(self, j) ==
    RAdd(self.vmin,
         RDiv(RMul(RInt(j), RSub(self.vmax, self.vmin)), RInt(num_atoms - 1)))

delta_z(self) == RDiv(RSub(self.vmax, self.vmin), RInt(num_atoms - 1))

\* faulty variant: the (1 - dones) factor is dropped
projected_atoms_keep_future(self, reward, done, j) ==
    Clamp(RAdd(reward, RMul(RPow(self.gamma, self.rollout), atoms(self, j))),
          self.vmin, self.vmax)

\* projected_atoms = rewards + gamma**rollout * atoms * (1 - dones), clamped
projected_atoms(self, reward, done, j) ==
    Clamp(RAdd(reward,
               RMul(RMul(RPow(self.gamma, self.rollout), atoms(self, j)),
                    RInt(1 - done))),
          self.vmin, self.vmax)

precision == 1

\* b = (projected_atoms - vmin) / delta_z, rounded to `precision` decimals
bucket(self, reward, done, j) ==
    LET b == RDiv(RSub(projected_atoms(self, reward, done, j), self.vmin),
                  delta_z(self))
        scale == RPow(RInt(10), precision)
    IN  RDiv(RInt(Round(RMul(b, scale))), scale)

lower_bound(b) == RFloor(b)
upper_bound(b) == RCeil(b)

\* faulty variant: without the (lower_bound == upper_bound) term
m_lower_no_exact(b, p) ==
    RMul(RSub(RInt(upper_bound(b)), b), p)

m_lower(b, p) ==
    RMul(RSub(RInt(upper_bound(b)
                   + (IF lower_bound(b) = upper_bound(b) THEN 1 ELSE 0)), b),
         p)

m_upper(b, p) == RMul(RSub(b, RInt(lower_bound(b))), p)

\* dest.index_add_(0, index, src): dest[index[j]] += src[j] for j = 0..k
RECURSIVE index_add(_, _, _, _)
index_add(dest, index, src, k) ==
    IF k < 0 THEN dest
    ELSE LET d == index_add(dest, index, src, k - 1)
         IN  [d EXCEPT ![index[k]] = RAdd(@, src[k])]

\* one pass of the loop over the batch (lines 417-419)
project_sample(self, reward, p, done) ==
    LET b == [j \in AtomIdx |-> bucket(self, reward, done, j)]
        lo == [j \in AtomIdx |-> lower_bound(b[j])]
        up == [j \in AtomIdx |-> upper_bound(b[j])]
        ml == [j \in AtomIdx |-> m_lower(b[j], p[j])]
        mu == [j \in AtomIdx |-> m_upper(b[j], p[j])]
        zeros == [k \in AtomIdx |-> RInt(0)]
    IN  index_add(index_add(zeros, lo, ml, num_atoms - 1), up, mu,
                  num_atoms - 1)

_categorical(self, rewards, probs, dones) ==
    [idx \in DOMAIN probs |->
        project_sample(self, rewards[idx], probs[idx], dones[idx])]

\* ---- inputs of the projection ----
batch_size == 1
Batch == 1 .. batch_size

RECURSIVE HistSum(_, _)
HistSum(h, k) == IF k < 0 THEN RInt(0) ELSE RAdd(h[k], HistSum(h, k - 1))

\* the valid histograms: non-negative, summing to 1 (masses 0, 1/2 and 1)
MassVals == {RInt(0), Rat(1, 2), RInt(1)}
Hists == {h \in [AtomIdx -> MassVals] : HistSum(h, num_atoms - 1) = RInt(1)}

RewardVals == {Rat(-3, 2), Rat(-1, 4), RInt(0), Rat(3, 2)}
AgentFields ==
    {[vmin |-> RInt(-1), vmax |-> RInt(2), gamma |-> Rat(1, 2), rollout |-> 1],
     [vmin |-> RInt(-1), vmax |-> RInt(1), gamma |-> Rat(1, 2), rollout |-> 2],
     [vmin |-> RInt(-1), vmax |-> RInt(1), gamma |-> RInt(1), rollout |-> 1]}

(***************************************************************************)
(* MAD4PG_Net: agents, networks and configuration.                         *)
(* A network is the sequence of its parameter tensors; a parameter is one  *)
(* fixed-point number.                                                     *)
(***************************************************************************)
agent_count == 2
Agents == 1 .. agent_count

C == 2
TauDen == 2
MaxSteps == 3

ParamVals == {0, 2}
Nets == {<<v>> : v \in ParamVals}

NoJoint == [target_actions |-> <<>>, predicted_actions |-> <<>>]
NoCall == [fn |-> "none"]

\* faulty variant: tau and (1 - tau) swapped
_soft_update_swapped(active, target) ==
    [k \in DOMAIN target |->
        Round(Rat((TauDen - tau) * active[k] + tau * target[k], TauDen))]

\* t_param.data.copy_(tau*param.data + (1-tau)*t_param.data), per parameter
_soft_update(active, target) ==
    [k \in DOMAIN target |->
        Round(Rat(tau * active[k] + (TauDen - tau) * target[k], TauDen))]

\* faulty variant: nothing is copied
_hard_update_noop(active, target) == target

\* target.load_state_dict(active.state_dict())
_hard_update(active, target) == active

\* faulty variant: force_hard is ignored
update_networks_unforced(agent, force_hard) ==
    IF update_type = "soft"
    THEN <<_soft_update(actor[agent], actor_target[agent]),
           _soft_update(critic[agent], critic_target[agent])>>
    ELSE IF t_step % C = 0
    THEN <<_hard_update(actor[agent], actor_target[agent]),
           _hard_update(critic[agent], critic_target[agent])>>
    ELSE <<actor_target[agent], critic_target[agent]>>

\* faulty variant: the hard update runs one step late
update_networks_late(agent, force_hard) ==
    IF update_type = "soft" /\ ~force_hard
    THEN <<_soft_update(actor[agent], actor_target[agent]),
           _soft_update(critic[agent], critic_target[agent])>>
    ELSE IF t_step % C = 1 \/ force_hard
    THEN <<_hard_update(actor[agent], actor_target[agent]),
           _hard_update(critic[agent], critic_target[agent])>>
    ELSE <<actor_target[agent], critic_target[agent]>>

\* update_networks(agent, force_hard): the agent's new
\* <<actor_target, critic_target>>
update_networks(agent, force_hard) ==
    IF update_type = "soft" /\ ~force_hard
    THEN <<_soft_update(actor[agent], actor_target[agent]),
           _soft_update(critic[agent], critic_target[agent])>>
    ELSE IF t_step % C = 0 \/ force_hard
    THEN <<_hard_update(actor[agent], actor_target[agent]),
           _hard_update(critic[agent], critic_target[agent])>>
    ELSE <<actor_target[agent], critic_target[agent]>>

\* __init__, lines 84-85: every agent's targets are forced to its actives
Construct ==
    /\ pc = <<"new", 0>>
    /\ actor_target' = [a \in Agents |-> update_networks(a, TRUE)[1]]
    /\ critic_target' = [a \in Agents |-> update_networks(a, TRUE)[2]]
    /\ pc' = <<"idle", 0>>
    /\ UNCHANGED <<actor, critic, t_step, episode, avg_score, cfgVars,
                   learnVars, memVars, call, ret>>

(***************************************************************************)
(* MAD4PG_Net.learn, in the order of its statements.                       *)
(***************************************************************************)
\* a network's output on an input is decided by its parameters and the input
Forward(net, x) == <<net, x>>

\* lines 121-126: every agent's target and predicted actions, concatenated
JointTensors ==
    [target_actions |-> [i \in Agents |-> Forward(actor_target[i], i)],
     predicted_actions |-> [i \in Agents |-> Forward(actor[i], i)]]

\* faulty variant: the joint tensors are assembled again for every agent
LearnArgsRecomputed == JointTensors

\* lines 137-138: the joint tensors handed to agent.learn
LearnArgs == joint

\* lines 112-132
LearnBegin ==
    /\ pc = <<"idle", 0>>
    /\ t_step < MaxSteps
    /\ t_step' = t_step + 1
    /\ joint' = JointTensors
    /\ received' = NoJoint
    /\ log' = << <<"assemble", 0>> >>
    /\ pc' = <<"learn", 1>>
    /\ UNCHANGED <<netVars, episode, avg_score, cfgVars, memVars, call, ret>>

\* line 137, D4PG_Agent.learn: the optimizers step the agent's actor and
\* critic to new values; the targets are read only
AgentLearn ==
    /\ pc[1] = "learn"
    /\ \E a \in Nets, c \in Nets :
          /\ actor' = [actor EXCEPT ![pc[2]] = a]
          /\ critic' = [critic EXCEPT ![pc[2]] = c]
    /\ received' = LearnArgs
    /\ log' = Append(log, <<"learn", pc[2]>>)
    /\ pc' = <<"sync", pc[2]>>
    /\ UNCHANGED <<actor_target, critic_target, joint, t_step, episode,
                   avg_score, cfgVars, memVars, call, ret>>

\* line 139, then the loop's next turn or the return
LearnSync ==
    /\ pc[1] = "sync"
    /\ actor_target' =
          [actor_target EXCEPT ![pc[2]] = update_networks(pc[2], FALSE)[1]]
    /\ critic_target' =
          [critic_target EXCEPT ![pc[2]] = update_networks(pc[2], FALSE)[2]]
    /\ log' = Append(log, <<"sync", pc[2]>>)
    /\ IF pc[2] < agent_count
       THEN /\ pc' = <<"learn", pc[2] + 1>>
            /\ UNCHANGED <<joint, received>>
       ELSE /\ pc' = <<"idle", 0>>
            /\ joint' = NoJoint
            /\ received' = NoJoint
    /\ UNCHANGED <<actor, critic, t_step, episode, avg_score, cfgVars,
                   memVars, call, ret>>

\* the coordinator as __init__ has built it up to line 83: fresh networks,
\* the counters at their first values, an empty replay store
InitCounters ==
    /\ t_step = 0
    /\ episode = 1
    /\ avg_score = RInt(0)
    /\ joint = NoJoint
    /\ received = NoJoint
    /\ log = <<>>
    /\ memlen = 0
    /\ n_step = {}
    /\ envEpisode = 0
    /\ envDone = FALSE
    /\ envSteps = 0
    /\ pretrain_length = 0

InitFields ==
    /\ pc = <<"new", 0>>
    /\ InitCounters
    /\ call = NoCall
    /\ ret = NoCall

InitNets ==
    /\ actor \in [Agents -> Nets]
    /\ actor_target \in [Agents -> Nets]
    /\ critic \in [Agents -> Nets]
    /\ critic_target \in [Agents -> Nets]

InitSchedule ==
    /\ e_min = RInt(0)
    /\ _e = RInt(1)
    /\ anneal_max = 8

Init ==
    /\ InitFields
    /\ InitNets
    /\ InitSchedule
    /\ update_type \in {"soft", "hard"}
    /\ tau \in 0 .. TauDen

Next == Construct \/ LearnBegin \/ AgentLearn \/ LearnSync

Spec == Init /\ [][Next]_vars

(***************************************************************************)
(* The replay store and the environment, as the coordinator uses them.     *)
(* A transition is known by the episode it was taken in.                   *)
(***************************************************************************)
MaxMem == 3
MaxPretrain == 3
MaxEpisodes == 2
MaxScores == 2
ScoreVals == {-2, 0, 4, 10}
ScoreWindow == 50

\* memory.store(experience): the transition joins the n-step accumulator
\* and the store holds one transition more
memory_store(len, window, ep) == <<len + 1, window \cup {ep}>>

\* memory.init_n_step()
init_n_step == {}

\* env.step(actions) -> dones: a step that ends the episode for any agent
\* ends the environment's episode
env_step(dones) ==
    IF \E a \in Agents : dones[a]
    THEN <<envEpisode + 1, TRUE>>
    ELSE <<envEpisode, envDone>>

DoneFlags ==
    {d \in [Agents -> BOOLEAN] :
        (\E a \in Agents : d[a]) => envEpisode < MaxEpisodes}

\* MAD4PG_Net.store, called by the training loop for a transition it has
\* just taken; the loop takes no step in an episode that is over
Store ==
    /\ pc = <<"idle", 0>>
    /\ ~envDone
    /\ memlen < MaxMem
    /\ \E dones \in DoneFlags :
          /\ memlen' = memory_store(memlen, n_step, envEpisode)[1]
          /\ n_step' = memory_store(memlen, n_step, envEpisode)[2]
          /\ envEpisode' = env_step(dones)[1]
          /\ envDone' = env_step(dones)[2]
    /\ envSteps' = envSteps + 1
    /\ UNCHANGED <<pc, netVars, cfgVars, learnVars, t_step, episode,
                   avg_score, pretrain_length, call, ret>>

RECURSIVE SeqSum(_)
SeqSum(q) == IF q = <<>> THEN 0 ELSE Head(q) + SeqSum(Tail(q))

\* np.array(scores[-avg_across:]).mean()
TrailingMean(scores) ==
    LET avg_across == IF Len(scores) < 1 THEN 1
                      ELSE IF Len(scores) > ScoreWindow THEN ScoreWindow
                      ELSE Len(scores)
        last == SubSeq(scores, Len(scores) - avg_across + 1, Len(scores))
    IN  Rat(SeqSum(last), Len(last))

\* faulty variant: the accumulator is left as it is
new_episode_window_kept == n_step

\* line 211: the n-step accumulator after new_episode
new_episode_window == init_n_step

ScoreLists == UNION {[1 .. n -> ScoreVals] : n \in 1 .. MaxScores}

\* MAD4PG_Net.new_episode(scores), called at an episode boundary, where the
\* training loop has reset the environment
NewEpisode ==
    /\ pc = <<"idle", 0>>
    /\ episode <= MaxEpisodes
    /\ envDone \/ envEpisode < MaxEpisodes
    /\ \E scores \in ScoreLists : avg_score' = TrailingMean(scores)
    /\ n_step' = new_episode_window
    /\ episode' = episode + 1
    /\ envEpisode' = IF envDone THEN envEpisode ELSE envEpisode + 1
    /\ envDone' = FALSE
    /\ UNCHANGED <<pc, netVars, cfgVars, learnVars, t_step, memlen, envSteps,
                   pretrain_length, call, ret>>

(***************************************************************************)
(* MAD4PG_Net.initialize_memory                                            *)
(***************************************************************************)
\* faulty variant: the loop stops one transition short
fill_continues_short(len, n) == len + 1 < n

\* line 153: while self.memlen < pretrain_length
fill_continues(len, n) == len < n

\* faulty variant: np.all in place of np.any
episode_ended_all(dones) == \A a \in Agents : dones[a]

\* line 159: np.any(dones)
episode_ended(dones) == \E a \in Agents : dones[a]

\* lines 147-152: the early return, or the entry into the loop
InitializeMemory ==
    /\ pc = <<"idle", 0>>
    /\ ~envDone
    /\ \E n \in 0 .. MaxPretrain :
          /\ call' = [fn |-> "initialize_memory", pretrain_length |-> n]
          /\ IF memlen >= n
             THEN /\ ret' = [fn |-> "initialize_memory", result |-> "filled"]
                  /\ UNCHANGED <<pc, pretrain_length>>
             ELSE /\ ret' = NoCall
                  /\ pc' = <<"fill", 0>>
                  /\ pretrain_length' = n
    /\ UNCHANGED <<netVars, cfgVars, learnVars, t_step, episode, avg_score,
                   memlen, n_step, envEpisode, envDone, envSteps>>

\* lines 153-166: one turn of the loop, and the return when it was the last
FillStep ==
    /\ pc = <<"fill", 0>>
    /\ \E dones \in DoneFlags :
          LET stored == memory_store(memlen, n_step, envEpisode)
          IN  /\ memlen' = stored[1]
              /\ IF episode_ended(dones)
                 THEN /\ envEpisode' = env_step(dones)[1]
                      /\ envDone' = FALSE               \* env.reset()
                      /\ n_step' = init_n_step
                 ELSE /\ envEpisode' = env_step(dones)[1]
                      /\ envDone' = env_step(dones)[2]
                      /\ n_step' = stored[2]
              /\ IF fill_continues(stored[1], pretrain_length)
                 THEN UNCHANGED <<pc, ret>>
                 ELSE /\ pc' = <<"idle", 0>>
                      /\ ret' = [fn |-> "initialize_memory",
                                 result |-> "Done!"]
    /\ envSteps' = envSteps + 1
    /\ UNCHANGED <<netVars, cfgVars, learnVars, t_step, episode, avg_score,
                   pretrain_length, call>>

InitFill ==
    /\ InitFields
    /\ InitSchedule
    /\ actor = [a \in Agents |-> <<0>>]
    /\ critic = [a \in Agents |-> <<0>>]
    /\ actor_target = [a \in Agents |-> <<2>>]
    /\ critic_target = [a \in Agents |-> <<2>>]
    /\ update_type = "hard"
    /\ tau = 0

NextFill == Construct \/ Store \/ NewEpisode \/ InitializeMemory \/ FillStep

SpecFill == InitFill /\ [][NextFill]_vars

\* the loop of initialize_memory keeps running once entered
FairSpecFill == SpecFill /\ WF_vars(FillStep)

(***************************************************************************)
(* MAD4PG_Net.e: the exploration rate.                                     *)
(***************************************************************************)
\* np.exp on [-4, 4]: e^(k/2) to two decimals for k = -8..8, in hundredths,
\* and linear between two neighbours
ExpTable ==
    <<2, 3, 5, 8, 14, 22, 37, 61, 100, 165, 272, 448, 739, 1218, 2009, 3312,
      5460>>

Exp(x) ==
    LET t == RMul(RInt(2), x)
        f == RFloor(t)
        lo == ExpTable[f + 9]
        hi == IF f + 10 <= Len(ExpTable) THEN ExpTable[f + 10] ELSE lo
    IN  RDiv(RAdd(RInt(lo), RMul(RSub(t, RInt(f)), RInt(hi - lo))), RInt(100))

steep_mult == 8

\* faulty variant: the curve is mirrored (exp(-x))
e_at_mirrored(score) ==
    LET ylow == e_min
        yhigh == _e
        xlow == RInt(0)
        xhigh == RInt(anneal_max)
        steepness == RDiv(RInt(steep_mult), RSub(xhigh, xlow))
        offset == RDiv(RAdd(xhigh, xlow), RInt(2))
        midpoint == RSub(yhigh, ylow)
        x == RMul(steepness, RSub(Clamp(score, RInt(0), xhigh), offset))
    IN  RAdd(ylow, RDiv(midpoint, RAdd(RInt(1), Exp(RSub(RInt(0), x)))))

\* lines 181-196, for a running average `score`
e_at(score) ==
    LET ylow == e_min
        yhigh == _e
        xlow == RInt(0)
        xhigh == RInt(anneal_max)
        steepness == RDiv(RInt(steep_mult), RSub(xhigh, xlow))
        offset == RDiv(RAdd(xhigh, xlow), RInt(2))
        midpoint == RSub(yhigh, ylow)
        x == RMul(steepness, RSub(Clamp(score, RInt(0), xhigh), offset))
    IN  RAdd(ylow, RDiv(midpoint, RAdd(RInt(1), Exp(x))))

\* the property e
e == e_at(avg_score)

\* a read of self.e by the training loop; the read before it is kept in call
ReadE ==
    /\ pc = <<"idle", 0>>
    /\ call' = ret
    /\ ret' = [fn |-> "e", score |-> avg_score, value |-> e]
    /\ UNCHANGED <<pc, netVars, cfgVars, learnVars, memVars, t_step, episode,
                   avg_score>>

\* the coordinator after construction, with one choice of networks
InitBuilt ==
    /\ pc = <<"idle", 0>>
    /\ InitCounters
    /\ actor = [a \in Agents |-> <<0>>]
    /\ critic = [a \in Agents |-> <<2>>]
    /\ actor_target = actor
    /\ critic_target = critic

ScheduleVals ==
    {s \in [e_min : {RInt(0), Rat(1, 2)}, _e : {Rat(1, 2), RInt(1), RInt(2)},
            anneal_max : {4, 8}] : RLe(s.e_min, s._e)}

InitE ==
    /\ InitBuilt
    /\ update_type = "hard"
    /\ tau = 0
    /\ call = NoCall
    /\ ret = NoCall
    /\ \E s \in ScheduleVals :
          /\ e_min = s.e_min
          /\ _e = s._e
          /\ anneal_max = s.anneal_max

NextE == NewEpisode \/ ReadE

SpecE == InitE /\ [][NextE]_vars

(***************************************************************************)
(* MAD4PG_Net.act                                                          *)
(***************************************************************************)
action_size == 1
ActionIdx == 1 .. action_size

\* self.e * n for a draw n of np.random.normal(0, 1, shape)
_gauss_noise(n) == [a \in Agents |-> [k \in ActionIdx |-> RMul(e, n[a][k])]]

\* faulty variant: the noise is added after the clip
act_clip_first(out, training, n) ==
    [a \in Agents |-> [k \in ActionIdx |->
        IF training
        THEN RAdd(Clamp(out[a][k], RInt(-1), RInt(1)), _gauss_noise(n)[a][k])
        ELSE Clamp(out[a][k], RInt(-1), RInt(1))]]

\* lines 94-98; out[a] is agent a's actor output on its own observation
act(out, training, n) ==
    [a \in Agents |-> [k \in ActionIdx |->
        Clamp(IF training THEN RAdd(out[a][k], _gauss_noise(n)[a][k])
              ELSE out[a][k],
              RInt(-1), RInt(1))]]

ActVals == {Rat(-3, 2), RInt(1)}
NoiseVals == {RInt(-3), RInt(2)}
NoNoise == [a \in Agents |-> [k \in ActionIdx |-> RInt(0)]]

ActCalls ==
    [fn : {"act"}, nobs : {agent_count}, training : {TRUE},
     out : [Agents -> [ActionIdx -> ActVals]],
     n : [Agents -> [ActionIdx -> NoiseVals]]]
    \cup
    [fn : {"act"}, nobs : {agent_count}, training : {FALSE},
     out : [Agents -> [ActionIdx -> ActVals]], n : {NoNoise}]
    \cup
    [fn : {"act"}, nobs : {agent_count - 1, agent_count + 1},
     training : BOOLEAN, out : {NoNoise}, n : {NoNoise}]

\* act(obs, training) with call.nobs observations; a wrong number of
\* observations fails the assertion of line 92
Act ==
    /\ pc = <<"idle", 0>>
    /\ call.fn = "act"
    /\ ret = NoCall
    /\ IF call.nobs = agent_count
       THEN /\ ret' = [fn |-> "act",
                       actions |-> act(call.out, call.training, call.n)]
            /\ pc' = pc
       ELSE /\ ret' = [fn |-> "act", error |-> "AssertionError"]
            /\ pc' = <<"failed", 0>>
    /\ UNCHANGED <<netVars, cfgVars, learnVars, memVars, t_step, episode,
                   avg_score, call>>

InitAct ==
    /\ InitBuilt
    /\ update_type = "hard"
    /\ tau = 0
    /\ call \in ActCalls
    /\ ret = NoCall
    /\ e_min = RInt(0)
    /\ _e \in {Rat(1, 2), RInt(1), RInt(2)}
    /\ anneal_max = 8

NextAct == Act

SpecAct == InitAct /\ [][NextAct]_vars

(***************************************************************************)
(* _soft_update and _hard_update on their own                              *)
(***************************************************************************)
NetLen == 2
ParamGrid == {-1, 0, 2}
NetsOfLen == [1 .. NetLen -> ParamGrid]

UpdateCalls ==
    [fn : {"_soft_update", "_hard_update"}, active : NetsOfLen,
     target : NetsOfLen]

SoftUpdate ==
    /\ call.fn = "_soft_update"
    /\ ret = NoCall
    /\ ret' = [fn |-> "_soft_update", active |-> call.active,
               target |-> _soft_update(call.active, call.target)]
    /\ UNCHANGED <<pc, netVars, cfgVars, learnVars, memVars, t_step, episode,
                   avg_score, call>>

HardUpdate ==
    /\ call.fn = "_hard_update"
    /\ ret = NoCall
    /\ ret' = [fn |-> "_hard_update", active |-> call.active,
               target |-> _hard_update(call.active, call.target)]
    /\ UNCHANGED <<pc, netVars, cfgVars, learnVars, memVars, t_step, episode,
                   avg_score, call>>

InitUpdate ==
    /\ InitBuilt
    /\ InitSchedule
    /\ update_type = "soft"
    /\ tau \in 0 .. TauDen
    /\ call \in UpdateCalls
    /\ ret = NoCall

NextUpdate == SoftUpdate \/ HardUpdate

SpecUpdate == InitUpdate /\ [][NextUpdate]_vars

(***************************************************************************)
(* _categorical on its own                                                 *)
(***************************************************************************)
ProjCalls ==
    [fn : {"_categorical"}, self : AgentFields, rewards : [Batch -> RewardVals],
     probs : [Batch -> Hists], dones : [Batch -> {0, 1}]]

Categorical ==
    /\ call.fn = "_categorical"
    /\ ret = NoCall
    /\ ret' = [fn |-> "_categorical",
               projected_probs |->
                   _categorical(call.self, call.rewards, call.probs,
                                call.dones)]
    /\ UNCHANGED <<pc, netVars, cfgVars, learnVars, memVars, t_step, episode,
                   avg_score, call>>

InitProj ==
    /\ InitBuilt
    /\ update_type = "hard"
    /\ tau = 0
    /\ InitSchedule
    /\ call \in ProjCalls
    /\ ret = NoCall

NextProj == Categorical

SpecProj == InitProj /\ [][NextProj]_vars

(***************************************************************************)
(* Properties                                                              *)
(***************************************************************************)
Projected(idx) == ret.projected_probs[idx]
Buckets(idx) ==
    [j \in AtomIdx |->
        bucket(call.self, call.rewards[idx], call.dones[idx], j)]

\* C1: mass conservation. Every sample's projected histogram is defined on
\* the num_atoms buckets, is non-negative and sums to 1, for every valid input
\* histogram, reward and done flag.
C1_MassConserved ==
    ret.fn = "_categorical" =>
        \A idx \in Batch :
            /\ DOMAIN Projected(idx) = AtomIdx
            /\ \A k \in AtomIdx : RLe(RInt(0), Projected(idx)[k])
            /\ HistSum(Projected(idx), num_atoms - 1) = RInt(1)

\* a projection has run on a non-terminal sample in which an atom was clamped
\* to vmax, two atoms carrying mass share a bucket, one bucket index is
\* an exact integer and another is fractional
C1_Witness ==
    /\ ret.fn = "_categorical"
    /\ \E idx \in Batch :
          /\ call.dones[idx] = 0
          /\ \E j \in AtomIdx :
                RLt(call.self.vmax,
                    RAdd(call.rewards[idx],
                         RMul(RPow(call.self.gamma, call.self.rollout),
                              atoms(call.self, j))))
          /\ \E i, j \in AtomIdx :
                /\ i # j
                /\ call.probs[idx][i] # RInt(0)
                /\ call.probs[idx][j] # RInt(0)
                /\ {lower_bound(Buckets(idx)[i]), upper_bound(Buckets(idx)[i])}
                      \cap {lower_bound(Buckets(idx)[j]),
                            upper_bound(Buckets(idx)[j])} # {}
          /\ \E j \in AtomIdx :
                /\ call.probs[idx][j] # RInt(0)
                /\ lower_bound(Buckets(idx)[j]) = upper_bound(Buckets(idx)[j])
          /\ \E j \in AtomIdx :
                /\ call.probs[idx][j] # RInt(0)
                /\ lower_bound(Buckets(idx)[j]) # upper_bound(Buckets(idx)[j])

\* the bucket index of the clamped reward, rounded as the routine rounds
RewardBucket(idx) ==
    LET r == Clamp(call.rewards[idx], call.self.vmin, call.self.vmax)
        b == RDiv(RSub(r, call.self.vmin),
                  RDiv(RSub(call.self.vmax, call.self.vmin),
                       RInt(num_atoms - 1)))
    IN  RDiv(RInt(Round(RMul(b, RInt(10)))), RInt(10))

\* the histogram with all of its mass on atom j
PointMass(j) == [k \in AtomIdx |-> IF k = j THEN RInt(1) ELSE RInt(0)]

\* C2: a terminal sample (done = 1) ignores the future atoms. Its projected
\* histogram is the one the same reward gives with all input mass on the first
\* atom, whatever valid histogram came in, and all of its mass lies on the
\* floor and ceiling buckets of the clamped reward's bucket index (bucket 0
\* when the reward is clamped to vmin, bucket num_atoms - 1 when it is clamped
\* to vmax).
C2_TerminalIgnoresFuture ==
    ret.fn = "_categorical" =>
        \A idx \in Batch :
            call.dones[idx] = 1 =>
                /\ Projected(idx) =
                      project_sample(call.self, call.rewards[idx],
                                     PointMass(0), 1)
                /\ \A k \in AtomIdx :
                      k \notin {RFloor(RewardBucket(idx)),
                                RCeil(RewardBucket(idx))}
                          => Projected(idx)[k] = RInt(0)
                /\ RLe(call.rewards[idx], call.self.vmin)
                      => Projected(idx)[0] = RInt(1)
                /\ RLe(call.self.vmax, call.rewards[idx])
                      => Projected(idx)[num_atoms - 1] = RInt(1)

\* a terminal sample whose reward falls strictly between two atoms has been
\* projected, and its input histogram had mass on the last atom
C2_Witness ==
    /\ ret.fn = "_categorical"
    /\ \E idx \in Batch :
          /\ call.dones[idx] = 1
          /\ call.probs[idx][num_atoms - 1] # RInt(0)
          /\ RFloor(RewardBucket(idx)) # RCeil(RewardBucket(idx))
          /\ Projected(idx)[RFloor(RewardBucket(idx))] # RInt(0)
          /\ Projected(idx)[RCeil(RewardBucket(idx))] # RInt(0)

InCall == pc[1] \in {"learn", "sync"}

\* the blend a soft update is to leave in a target parameter
Blend(p, t) == Round(Rat(tau * p + (TauDen - tau) * t, TauDen))
BlendNet(active, target) ==
    [k \in DOMAIN target |-> Blend(active[k], target[k])]

\* C3: the schedule of the target synchronization. A learn call raises t_step
\* by exactly 1, before any agent is synchronized; update_type never changes;
\* an agent's synchronization step blends both of its targets when
\* update_type is "soft", overwrites both with the actives when it is not and
\* t_step is a multiple of C, and leaves both unchanged otherwise; no target
\* changes in any other step of the call, and every agent has been
\* synchronized when the call returns.
C3_SyncSchedule ==
    [][/\ update_type' = update_type
       /\ (pc[1] = "idle" /\ pc'[1] = "learn") => t_step' = t_step + 1
       /\ InCall => t_step' = t_step
       /\ pc[1] = "learn" =>
             /\ actor_target' = actor_target
             /\ critic_target' = critic_target
       /\ pc[1] = "sync" =>
             /\ \A a \in Agents \ {pc[2]} :
                   /\ actor_target'[a] = actor_target[a]
                   /\ critic_target'[a] = critic_target[a]
             /\ actor_target'[pc[2]] =
                   IF update_type = "soft"
                   THEN BlendNet(actor[pc[2]], actor_target[pc[2]])
                   ELSE IF t_step % C = 0 THEN actor[pc[2]]
                   ELSE actor_target[pc[2]]
             /\ critic_target'[pc[2]] =
                   IF update_type = "soft"
                   THEN BlendNet(critic[pc[2]], critic_target[pc[2]])
                   ELSE IF t_step % C = 0 THEN critic[pc[2]]
                   ELSE critic_target[pc[2]]
       /\ (pc[1] = "sync" /\ pc'[1] = "idle") =>
             \A a \in Agents : \E k \in DOMAIN log' : log'[k] = <<"sync", a>>
      ]_vars

\* under the hard policy a learn call has returned after the first overwrite
\* (t_step is past C and no multiple of it) with a target that differs from
\* its active network: the call left the targets alone
C3_Witness ==
    /\ pc = <<"idle", 0>>
    /\ update_type = "hard"
    /\ t_step > C
    /\ t_step % C # 0
    /\ \E a \in Agents : actor_target[a] # actor[a]

\* C4: a hard update leaves the target equal to the active network, whatever
\* the target held, and leaves the active network alone: construction does so
\* for every agent's actor and critic under either update_type, and so does
\* the synchronization of the hard policy when t_step is a multiple of C.
C4_HardParity ==
    [][/\ pc[1] = "new" =>
             /\ actor' = actor
             /\ critic' = critic
             /\ pc'[1] = "idle" =>
                   \A a \in Agents :
                       /\ actor_target'[a] = actor[a]
                       /\ critic_target'[a] = critic[a]
       /\ (pc[1] = "sync" /\ update_type # "soft" /\ t_step % C = 0) =>
             /\ actor' = actor
             /\ critic' = critic
             /\ actor_target'[pc[2]] = actor[pc[2]]
             /\ critic_target'[pc[2]] = critic[pc[2]]
      ]_vars

\* a coordinator with update_type "soft" and tau < 1 has just been built and
\* its targets equal its actives
C4_Witness ==
    /\ pc = <<"idle", 0>>
    /\ t_step = 0
    /\ update_type = "soft"
    /\ tau < TauDen
    /\ \A a \in Agents :
          actor_target[a] = actor[a] /\ critic_target[a] = critic[a]

\* C5: the warm-up fill. Once in its loop, initialize_memory returns; when it
\* has returned, the store holds at least pretrain_length transitions; while
\* it runs, t_step and every network stay as they are and no learn call
\* begins; and when the store already holds pretrain_length transitions it
\* returns without a step of the environment or a store.
C5_WarmUpFill ==
    /\ [](ret.fn = "initialize_memory" => memlen >= call.pretrain_length)
    /\ [][pc[1] = "fill" =>
             /\ t_step' = t_step
             /\ UNCHANGED netVars
             /\ pc'[1] \in {"fill", "idle"}]_vars
    /\ [][(/\ pc[1] = "idle"
           /\ ret'.fn = "initialize_memory"
           /\ ret'.result = "filled"
           /\ (call' # call \/ ret' # ret)) =>
             /\ memlen' = memlen
             /\ envSteps' = envSteps
             /\ n_step' = n_step
             /\ t_step' = t_step
             /\ UNCHANGED netVars]_vars
    /\ (pc[1] = "fill") ~> (pc[1] = "idle")

\* a fill that had to step the environment has returned
C5_Witness ==
    /\ pc = <<"idle", 0>>
    /\ ret = [fn |-> "initialize_memory", result |-> "Done!"]
    /\ call.pretrain_length = MaxPretrain
    /\ memlen >= call.pretrain_length
    /\ envSteps >= MaxPretrain

\* C7: episodes never blend in the n-step accumulator. The transitions in the
\* accumulator are of one episode; a new_episode call empties it and raises
\* the episode counter by exactly 1; and inside initialize_memory a step that
\* ends the episode for any agent is followed by the environment's reset and
\* an empty accumulator before the next store.
C7_NoBlend ==
    /\ [](Cardinality(n_step) <= 1)
    /\ [](pc[1] = "fill" => ~envDone)
    /\ [][episode' # episode => (episode' = episode + 1 /\ n_step' = {})]_vars
    /\ [][(pc[1] = "fill" /\ envEpisode' # envEpisode) =>
             (n_step' = {} /\ ~envDone')]_vars

\* the fill is under way, an episode has ended inside it after transitions
\* were stored, and the accumulator is empty again
C7_Witness ==
    /\ pc = <<"fill", 0>>
    /\ envEpisode > 0
    /\ episode = 1
    /\ memlen > 0
    /\ n_step = {}

\* C6: the exploration rate is bounded by e_min below and _e above, does not
\* rise when the running average rises, and for a running average outside
\* [0, anneal_max] is the rate of the nearer end of that range.
C6_RateBoundedMonotone ==
    /\ ret.fn = "e" =>
          /\ RLe(e_min, ret.value)
          /\ RLe(ret.value, _e)
          /\ RLe(ret.score, RInt(0)) => ret.value = e_at(RInt(0))
          /\ RLe(RInt(anneal_max), ret.score)
                => ret.value = e_at(RInt(anneal_max))
    /\ (ret.fn = "e" /\ call.fn = "e") =>
          /\ RLe(call.score, ret.score) => RLe(ret.value, call.value)
          /\ RLe(ret.score, call.score) => RLe(call.value, ret.value)

\* two reads in a row: the later one at a higher running average, beyond
\* anneal_max, gave a strictly lower rate
C6_Witness ==
    /\ ret.fn = "e"
    /\ call.fn = "e"
    /\ RLt(call.score, ret.score)
    /\ RLt(RInt(anneal_max), ret.score)
    /\ RLt(ret.value, call.value)

\* C8: with one observation per agent, act returns one action vector per
\* agent, in agent order, every component within [-1, 1]; without training it
\* is the clipped actor output, with training the clipped sum of the actor
\* output and the noise.
C8_ActionsClipped ==
    (ret.fn = "act" /\ call.nobs = agent_count) =>
        /\ DOMAIN ret.actions = Agents
        /\ \A a \in Agents :
              /\ DOMAIN ret.actions[a] = ActionIdx
              /\ \A k \in ActionIdx :
                    /\ RLe(RInt(-1), ret.actions[a][k])
                    /\ RLe(ret.actions[a][k], RInt(1))
                    /\ ~call.training =>
                          ret.actions[a][k] =
                              Clamp(call.out[a][k], RInt(-1), RInt(1))
                    /\ call.training =>
                          ret.actions[a][k] =
                              Clamp(RAdd(call.out[a][k],
                                         RMul(e_at(avg_score), call.n[a][k])),
                                    RInt(-1), RInt(1))

\* a training call in which an actor output within range left the range once
\* the noise was added, and came back as 1
C8_Witness ==
    /\ ret.fn = "act"
    /\ call.nobs = agent_count
    /\ call.training
    /\ \E a \in Agents, k \in ActionIdx :
          /\ RLe(call.out[a][k], RInt(1))
          /\ RLt(RInt(1), RAdd(call.out[a][k],
                               RMul(e_at(avg_score), call.n[a][k])))
          /\ ret.actions[a][k] = RInt(1)

\* C9: _soft_update with tau = 1 leaves the target equal to the active
\* network, as _hard_update does; with tau = 0 it leaves the target as it
\* was; the active network is unchanged either way.
C9_SoftEndpoints ==
    ret.fn = "_soft_update" =>
        /\ ret.active = call.active
        /\ tau = TauDen => ret.target = call.active
        /\ tau = 0 => ret.target = call.target

\* a soft update with tau = 1 has run on a target that differed from the
\* active network in every parameter
C9_Witness ==
    /\ ret.fn = "_soft_update"
    /\ tau = TauDen
    /\ \A k \in DOMAIN call.target : call.target[k] # call.active[k]

\* the steps of a learn call, in the order they are to be taken
ExpectedStep(k) ==
    IF k = 1 THEN <<"assemble", 0>>
    ELSE IF k % 2 = 0 THEN <<"learn", k \div 2>>
    ELSE <<"sync", (k - 1) \div 2>>

\* C10: the order inside one learn call. The joint tensors are assembled from
\* the networks as they are before any agent has learned; the agents then
\* learn one after another in agent order, each synchronized before the next
\* learns; the joint tensors stay as assembled until the call returns, and
\* every agent is handed them.
C10_LearnOrder ==
    /\ [](\A k \in DOMAIN log : log[k] = ExpectedStep(k))
    /\ [](pc[1] = "sync" => received = joint)
    /\ [][(pc[1] = "idle" /\ pc'[1] = "learn") =>
             /\ joint'.target_actions =
                   [i \in Agents |-> <<actor_target[i], i>>]
             /\ joint'.predicted_actions = [i \in Agents |-> <<actor[i], i>>]
             /\ log' = << <<"assemble", 0>> >>
             /\ UNCHANGED netVars]_vars
    /\ [][(InCall /\ pc'[1] # "idle") => joint' = joint]_vars

\* the last agent has learned with the joint tensors assembled before the
\* first agent's actor and target changed
C10_Witness ==
    /\ pc = <<"sync", agent_count>>
    /\ received = joint
    /\ joint.predicted_actions[1] # <<actor[1], 1>>
    /\ joint.target_actions[1] # <<actor_target[1], 1>>

====
